---------------------------- MODULE Spec2Model ----------------------------
(* A model of the meteor-profiler: lib/index.js (Profile, the session,    *)
(* the accumulation table, the report) and the two Timer variants          *)
(* (lib/timer.js, src/timer.js).  Times are integers; a call path is a     *)
(* sequence of bucket names; a JS object keyed by JSON.stringify(path) is  *)
(* a sequence of <<path, value>> pairs in insertion order.                 *)
EXTENDS Integers, Sequences, FiniteSets, TLC

(***************************************************************************)
(* Bounds of the model.                                                    *)
(***************************************************************************)
MaxClock == 2    \* getcputime() takes the values 0..MaxClock
MaxDepth == 2    \* frames a logical thread may have open at once
MaxCalls == 2    \* wrapped calls and run() calls made in one behaviour
MaxIncs  == 1    \* manual increase() calls made in one behaviour
MaxWrapped == 4  \* wrapped calls made in a session fed by wrapped calls only
MaxNesting == 3  \* frames a thread may have open at once in such a session
MaxSpanning == 1 \* calls open when start() or stop() is called in such a session
MaxWrappedClock == 1  \* getcputime() takes the values 0..this in such a session
MaxSetups == 2   \* runs of setupReport on one table
MaxKeys  == 4    \* paths of a table that increase() filled before a report

(***************************************************************************)
(* Inputs.                                                                 *)
(***************************************************************************)
\* Fiber.current: 0 is "no current fiber" (the global path), 1.. are fibers.
NoFiber == 0
Fibers  == {1, 2}
Threads == {NoFiber} \cup Fibers

Names == {"a", "other a"}

\* Values of process.env['METEOR_PROFILE_SERVER'], as sequences of
\* characters; the empty text is the unset variable.
EnvValues == {<< >>, <<"1", "0">>}

\* Amounts passed to Profile.increase by hand.
IncAmounts == {5, -5}

RECURSIVE PathsOfLen(_)
PathsOfLen(n) ==
  IF n = 0 THEN {<< >>}
  ELSE {Append(p, x) : p \in PathsOfLen(n - 1), x \in Names}

\* The call paths a thread can be on.
Paths == UNION {PathsOfLen(n) : n \in 1..MaxNesting}

\* The paths of a table that increase() filled by hand.
TablePaths == UNION {PathsOfLen(n) : n \in 1..MaxDepth}

(***************************************************************************)
(* JS objects used as maps (bucketTimes, bucketTimesAndOther).             *)
(***************************************************************************)
Keys(tbl) == [i \in 1..Len(tbl) |-> tbl[i][1]]

Has(tbl, key) == \E i \in 1..Len(tbl) : tbl[i][1] = key

\* tbl[key]; reading a missing key is left undefined (TLC stops on it).
Get(tbl, key) == tbl[CHOOSE i \in 1..Len(tbl) : tbl[i][1] = key][2]

\* tbl[key] = v : an existing key keeps its place, a new one is appended.
Put(tbl, key, v) ==
  IF Has(tbl, key)
  THEN [i \in 1..Len(tbl) |-> IF tbl[i][1] = key THEN <<key, v>> ELSE tbl[i]]
  ELSE Append(tbl, <<key, v>>)

RECURSIVE SumSeq(_)
SumSeq(s) == IF s = << >> THEN 0 ELSE Head(s) + SumSeq(Tail(s))

\* _.last
Last(s) == s[Len(s)]

\* _.uniq: the first occurrence of every element, in order.
RECURSIVE Uniq(_)
Uniq(s) ==
  IF s = << >> THEN << >>
  ELSE LET r == Uniq(SubSeq(s, 1, Len(s) - 1))
       IN  IF \E i \in 1..Len(r) : r[i] = Last(s) THEN r ELSE Append(r, Last(s))

(***************************************************************************)
(* The report: lib/index.js 271-408.  es is `entries`, bt is `bucketTimes`,*)
(* bto is `bucketTimesAndOther`, flt is `filter`.                          *)
(***************************************************************************)
entryName(entry) == Last(entry)

entryTime(bto, entry) == Get(bto, entry)

isTopLevelEntry(entry) == Len(entry) = 1

topLevelEntries(es) == SelectSeq(es, isTopLevelEntry)

isChild(entry1, entry2) ==
  /\ Len(entry2) = Len(entry1) + 1
  /\ entry1 = SubSeq(entry2, 1, Len(entry1))

children(es, entry1) == SelectSeq(es, LAMBDA entry2 : isChild(entry1, entry2))

hasChildren(es, entry) == Len(children(es, entry)) # 0

isLeaf(es, entry) == ~hasChildren(es, entry)

\* Number.prototype.toFixed(1) of an integer number of ms: the decimal text
\* "<x>.0", held as the number of tenths it denotes.
toFixed1(x) == 10 * x

\* One printed line, print(level, name + ": " + time.toFixed(1)).
printLine(level, name, x) == <<level, name, toFixed1(x)>>

\* print(0, '')
blankLine == <<0, "">>

otherTime(es, bt, bto, entry) ==
  LET cs == children(es, entry)
  IN  entryTime(bto, entry) - SumSeq([i \in 1..Len(cs) |-> Get(bt, cs[i])])

OtherName(entry) == "other " \o entryName(entry)

\* st is [entries, bto]: the two objects injectOtherTime writes.
injectOtherTime(st, bt, entry) ==
  LET other == Append(entry, OtherName(entry))
  IN  [entries |-> Append(st.entries, other),
       bto     |-> Put(st.bto, other, otherTime(st.entries, bt, st.bto, entry))]

RECURSIVE injectEach(_, _, _)
injectEach(st, bt, parents) ==
  IF parents = << >> THEN st
  ELSE injectEach(injectOtherTime(st, bt, Head(parents)), bt, Tail(parents))

\* index.js 318-321
reportOnLeaf(bto, flt, level, entry) ==
  IF entryTime(bto, entry) < flt THEN << >>
  ELSE <<printLine(level, Last(entry), entryTime(bto, entry))>>

RECURSIVE reportOn(_, _, _, _, _)
RECURSIVE reportOnEach(_, _, _, _, _)
\* Mutant of reportOnParent: below the filter only the parent's own line
\* is dropped, its children are still walked.
reportOnParentWalkingOn(es, bto, flt, level, entry) ==
  (IF entryTime(bto, entry) < flt THEN << >>
   ELSE <<printLine(level, entryName(entry), entryTime(bto, entry))>>)
    \o reportOnEach(es, bto, flt, level + 1, children(es, entry))

\* index.js 339-345: below the filter the function returns at once.
reportOnParent(es, bto, flt, level, entry) ==
  IF entryTime(bto, entry) < flt THEN << >>
  ELSE <<printLine(level, entryName(entry), entryTime(bto, entry))>>
         \o reportOnEach(es, bto, flt, level + 1, children(es, entry))

reportOn(es, bto, flt, level, entry) ==
  IF hasChildren(es, entry) THEN reportOnParent(es, bto, flt, level, entry)
  ELSE reportOnLeaf(bto, flt, level, entry)

\* _.each(list, function (e) { reportOn(level, e); })
reportOnEach(es, bto, flt, level, list) ==
  IF list = << >> THEN << >>
  ELSE reportOn(es, bto, flt, level, Head(list))
         \o reportOnEach(es, bto, flt, level, Tail(list))

reportHierarchy(es, bto, flt) ==
  reportOnEach(es, bto, flt, 0, topLevelEntries(es))

allLeafs(es) ==
  LET leafs == SelectSeq(es, LAMBDA e : isLeaf(es, e))
  IN  Uniq([i \in 1..Len(leafs) |-> entryName(leafs[i])])

leafTotal(es, bto, leafName) ==
  LET leafs == SelectSeq(es, LAMBDA e : isLeaf(es, e) /\ entryName(e) = leafName)
  IN  SumSeq([i \in 1..Len(leafs) |-> entryTime(bto, leafs[i])])

\* totals.sort(cmp), by time, descending.  cmp returns 0 for two totals
\* of the same time, and where sort leaves such totals is up to the
\* engine: the outcomes are the orders of ts in which no time is followed
\* by a greater one.  The set of these outcomes: the last total is put
\* at any place after the greater and before the smaller ones.
RECURSIVE sortTotals(_)
sortTotals(ts) ==
  IF ts = << >> THEN {<< >>}
  ELSE LET x == Last(ts)
       IN  UNION {{SubSeq(r, 1, k) \o <<x>> \o SubSeq(r, k + 1, Len(r)) :
                     k \in Cardinality({i \in 1..Len(r) : r[i].time > x.time})
                           ..Cardinality({i \in 1..Len(r) : r[i].time >= x.time})} :
                  r \in sortTotals(SubSeq(ts, 1, Len(ts) - 1))}

\* The totals the leaf view prints, those at or above the filter, in each
\* of the orders the sort may give.
printedTotals(es, bto, flt) ==
  LET ls == allLeafs(es)
  IN  {SelectSeq(totals, LAMBDA t : ~(t.time < flt)) :
         totals \in sortTotals([i \in 1..Len(ls) |->
                      [name |-> ls[i], time |-> leafTotal(es, bto, ls[i])]])}

\* grandTotal += total.time, next to every printed total ps[i].
grandTotal(ps) == SumSeq([i \in 1..Len(ps) |-> ps[i].time])

\* The lines of the leaf view, in each of the orders the sort may give.
reportTotals(es, bto, flt) ==
  {[i \in 1..Len(ps) |-> printLine(0, ps[i].name, ps[i].time)]
     \o <<printLine(0, "Measured CPU", grandTotal(ps))>> :
   ps \in printedTotals(es, bto, flt)}

\* The lines reportWithoutStopping prints, given what setupReport built:
\* one sequence of lines for each order the sort may give.
reportLines(st, flt) ==
  {<<blankLine>> \o reportHierarchy(st.entries, st.bto, flt)
     \o <<blankLine>> \o totals :
   totals \in reportTotals(st.entries, st.bto, flt)}

(***************************************************************************)
(* Timer: lib/timer.js (the build lib/index.js requires; a protocol error  *)
(* ends the process) and src/timer.js (a protocol error is thrown).        *)
(***************************************************************************)
MsPerSec == 1000

Variants == {"lib", "src"}

\* What the completion callback given to a Timer does when stop() calls
\* it: it returns (as the closure lib/index.js 226-228 passes does), it
\* throws, it calls stop() on the Timer once more (and returns from that
\* second call), or it calls start() on the Timer.
Callbacks == {"returns", "throws", "stopsOnce", "startsAgain"}

\* new Timer(id, onStopped); uid stands for the object's identity.
Timer(id, onStopped, uid) ==
  [id |-> id, onStopped |-> onStopped, uid |-> uid, running |-> FALSE,
   totalMs |-> 0]

\* What a protocol error does in each variant.
TimerError(variant) == IF variant = "lib" THEN "exit" ELSE "throw"

\* timer.start() at CPU time `now`: the outcome and the timer afterwards.
TimerStart(variant, tm, now) ==
  IF tm.running
  THEN [outcome |-> TimerError(variant), timer |-> tm]
  ELSE [outcome |-> "ok",
        timer   |-> [id |-> tm.id, onStopped |-> tm.onStopped, uid |-> tm.uid,
                     running |-> TRUE, totalMs |-> tm.totalMs,
                     startCPUTime |-> now]]

\* The Timer after `delete this._startCPUTimeSecs; this.running = false`.
TimerStopped(tm) ==
  [id |-> tm.id, onStopped |-> tm.onStopped, uid |-> tm.uid,
   running |-> FALSE, totalMs |-> tm.totalMs]

\* timer.stop() at CPU time `now`, with a callback that uses `used` seconds
\* of CPU time before it acts: the outcome, the durations handed to
\* onStopped and the timer afterwards.  The callback runs before the Timer
\* is marked stopped (timer.js 47-51): while it runs the Timer is still
\* running and still has its start time.
\*  - it returns: the start time is deleted, running = false;
\*  - it throws: stop() ends with that exception, the Timer stays running;
\*  - it calls stop() once more: that call finds a running Timer, reads
\*    the CPU time again (timer.js 47), hands the duration up to then to
\*    the callback and stops the Timer; the outer call then deletes and
\*    clears again;
\*  - it calls start(): a protocol error on a running Timer, which ends the
\*    process (lib) or is thrown out of stop() (src); the Timer stays
\*    running.
TimerStop(variant, tm, now, used) ==
  IF ~tm.running
  THEN [outcome |-> TimerError(variant), onStopped |-> << >>, timer |-> tm]
  ELSE LET durationCPUTimeMs == MsPerSec * (now - tm.startCPUTime)
           nestedCPUTimeMs == MsPerSec * (now + used - tm.startCPUTime)
       IN  CASE tm.onStopped = "returns" ->
                  [outcome |-> "ok", onStopped |-> <<durationCPUTimeMs>>,
                   timer |-> TimerStopped(tm)]
             [] tm.onStopped = "throws" ->
                  [outcome |-> "callback threw",
                   onStopped |-> <<durationCPUTimeMs>>, timer |-> tm]
             [] tm.onStopped = "stopsOnce" ->
                  [outcome |-> "ok",
                   onStopped |-> <<durationCPUTimeMs, nestedCPUTimeMs>>,
                   timer |-> TimerStopped(tm)]
             [] tm.onStopped = "startsAgain" ->
                  [outcome |-> TimerError(variant),
                   onStopped |-> <<durationCPUTimeMs>>, timer |-> tm]

(***************************************************************************)
(* Configuration read at load time: lib/index.js 170-171.  The value of    *)
(* the environment variable is a text: a sequence of characters.           *)
(***************************************************************************)
\* !!process.env[...]: the empty (unset) value is false, any other text true.
Enabled(env) == env # << >>

\* A text is a sequence of characters; a character is a one-character
\* string.  The vertical tab is written as the character itself, TLA+
\* having no escape for it; a character no TLA+ string can hold is
\* written as the name of its code point.
\* StrWhiteSpaceChar: TAB, LF, VT, FF, CR, SP, NBSP, ZWNBSP, the line and
\* paragraph separators and the space separators (category Zs).
WhiteSpace ==
  {" ", "\t", "\n", "\r", "\f", "",
   "U+00A0", "U+1680", "U+2000", "U+2001", "U+2002", "U+2003", "U+2004",
   "U+2005", "U+2006", "U+2007", "U+2008", "U+2009", "U+200A", "U+2028",
   "U+2029", "U+202F", "U+205F", "U+3000", "U+FEFF"}

\* The text from its first character that is no white space.
TrimLeft(s) ==
  IF \A i \in 1..Len(s) : s[i] \in WhiteSpace THEN << >>
  ELSE SubSeq(s, CHOOSE i \in 1..Len(s) :
                   /\ s[i] \notin WhiteSpace
                   /\ \A j \in 1..(i - 1) : s[j] \in WhiteSpace,
              Len(s))

\* The text up to its last character that is no white space.
TrimRight(s) ==
  IF \A i \in 1..Len(s) : s[i] \in WhiteSpace THEN << >>
  ELSE SubSeq(s, 1, CHOOSE i \in 1..Len(s) :
                      /\ s[i] \notin WhiteSpace
                      /\ \A j \in (i + 1)..Len(s) : s[j] \in WhiteSpace)

LowerDigits == <<"0", "1", "2", "3", "4", "5", "6", "7", "8", "9",
                 "a", "b", "c", "d", "e", "f">>

UpperDigits == <<"0", "1", "2", "3", "4", "5", "6", "7", "8", "9",
                 "A", "B", "C", "D", "E", "F">>

\* c is a digit of the base.
IsDigit(c, base) ==
  \E i \in 1..base : LowerDigits[i] = c \/ UpperDigits[i] = c

DigitValue(c) ==
  (CHOOSE i \in 1..Len(LowerDigits) : LowerDigits[i] = c \/ UpperDigits[i] = c)
    - 1

AllDigits(s, base) == \A i \in 1..Len(s) : IsDigit(s[i], base)

\* The values of the digits of a digit string.
DigitValues(s) == [i \in 1..Len(s) |-> DigitValue(s[i])]

\* A numeral (digit values, most significant first) that denotes 0.
IsZero(ds) == \A i \in 1..Len(ds) : ds[i] = 0

\* The bits of a number from its lowest bit up to its highest 1.
TrimBits(all) ==
  IF IsZero(all) THEN << >>
  ELSE SubSeq(all, 1, CHOOSE i \in 1..Len(all) :
                        all[i] = 1 /\ \A j \in (i + 1)..Len(all) : all[j] = 0)

\* The bits of a numeral of base 2^width, least significant first, the
\* last one 1.
RadixToBits(ds, width) ==
  TrimBits([i \in 1..(width * Len(ds)) |->
              (ds[Len(ds) - (i - 1) \div width] \div 2^((i - 1) % width)) % 2])

\* Decimal numerals are worked on seven digits at a time: a limb is a
\* number below 10^7, which 2^7 divides.
LimbDigits == 7

LimbBase == 10000000

LimbBits == 7

\* The limbs of an integer numeral, most significant first.
IntegerLimbs(ds) ==
  LET k == (Len(ds) + LimbDigits - 1) \div LimbDigits
      pad == LimbDigits * k - Len(ds)
      d(i) == IF i <= pad THEN 0 ELSE ds[i - pad]
  IN  [j \in 1..k |->
         SumSeq([m \in 1..LimbDigits |->
                   d(LimbDigits * (j - 1) + m) * 10^(LimbDigits - m)])]

\* The limbs of the fraction 0.ds, most significant first.
FractionLimbs(ds) ==
  LET k == (Len(ds) + LimbDigits - 1) \div LimbDigits
      d(i) == IF i <= Len(ds) THEN ds[i] ELSE 0
  IN  [j \in 1..k |->
         SumSeq([m \in 1..LimbDigits |->
                   d(LimbDigits * (j - 1) + m) * 10^(LimbDigits - m)])]

\* An integer divided by 2^7, rounded down: what is carried into a limb
\* is the limb before it modulo 2^7, as 2^7 divides the base.
Div128(ls) ==
  SubSeq([i \in 1..Len(ls) |->
            (LimbBase * (IF i > 1 THEN ls[i - 1] % 2^LimbBits ELSE 0) + ls[i])
              \div 2^LimbBits],
         1, Len(ls))

\* The bits of an integer given by its limbs, least significant first, in
\* sevens.
RECURSIVE LimbsToBits(_)
LimbsToBits(ls) ==
  IF IsZero(ls) THEN << >>
  ELSE [i \in 1..LimbBits |-> ((ls[Len(ls)] % 2^LimbBits) \div 2^(i - 1)) % 2]
         \o LimbsToBits(Div128(ls))

\* The bits of a decimal numeral, least significant first, the last one 1.
DecimalToBits(ds) == TrimBits(LimbsToBits(IntegerLimbs(ds)))

\* What 2^7 times a fraction carries out of limb i.
CarryOut(ls, i) ==
  IF i <= Len(ls) THEN (2^LimbBits * ls[i]) \div LimbBase ELSE 0

\* The fraction part of 2^7 times a fraction: the carry into a limb comes
\* from the next limb alone, as 2^7 divides the base.
Mul128(ls) ==
  SubSeq([i \in 1..Len(ls) |->
            ((2^LimbBits * ls[i]) % LimbBase) + CarryOut(ls, i + 1)],
         1, Len(ls))

\* The fraction part of 2^(7 * steps) times a fraction.
RECURSIVE Shifted(_, _)
Shifted(ls, steps) ==
  IF steps = 0 THEN ls ELSE Shifted(Mul128(ls), steps - 1)

\* The significand of a Number (an IEEE 754 double) has this many bits.
MantissaBits == 53

\* Fraction bits are read in eight sevens: three more than a significand
\* and its rounding bit.
FractionSteps == 8

\* The first 56 bits of the fraction 0.fr after the binary point.
FractionBits(fr) ==
  LET ls == FractionLimbs(fr)
  IN  [i \in 1..(LimbBits * FractionSteps) |->
         (CarryOut(Shifted(ls, (i - 1) \div LimbBits), 1)
            \div 2^(LimbBits - 1 - ((i - 1) % LimbBits))) % 2]

\* A 32-bit unsigned value as two 16-bit halves.
Half == 65536

\* The low 32 bits of a number given by its bits.
Word(bits) ==
  LET bit(i) == IF i <= Len(bits) THEN bits[i] ELSE 0
  IN  [hi |-> SumSeq([i \in 1..16 |-> bit(16 + i) * 2^(i - 1)]),
       lo |-> SumSeq([i \in 1..16 |-> bit(i) * 2^(i - 1)])]

\* (x + y) modulo 2^32
Add32(x, y) ==
  LET lo == x.lo + y.lo
      hi == x.hi + y.hi + lo \div Half
  IN  [hi |-> hi % Half, lo |-> lo % Half]

\* 2^s modulo 2^32
PowerOfTwo32(s) ==
  IF s < 16 THEN [hi |-> 0, lo |-> 2^s]
  ELSE IF s < 32 THEN [hi |-> 2^(s - 16), lo |-> 0]
  ELSE [hi |-> 0, lo |-> 0]

\* ToInt32 of the Number nearest to I + F (ties to the even significand),
\* for the bits of the integer I and the fraction F = 0.fr in decimal: the
\* low 32 bits of that Number truncated.
\*  - I has more than 53 bits: its s lowest bits are rounded away, F
\*    counting only as something beyond them;
\*  - otherwise the significand is I and the first 53 - Len(bits) bits of
\*    F, and the next bit of F rounds it: the Number truncates to I + 1
\*    when all those n = 54 - Len(bits) bits of F are 1 and either more
\*    of F follows or the significand is odd, and to I otherwise.
RoundedWord(bits, fr) ==
  LET s == Len(bits) - MantissaBits
  IN  IF s >= 32 THEN [hi |-> 0, lo |-> 0]
      ELSE IF s >= 1
      THEN LET sticky == ~IsZero(fr) \/ \E i \in 1..(s - 1) : bits[i] = 1
               up == bits[s] = 1 /\ (sticky \/ bits[s + 1] = 1)
               kept == [i \in 1..Len(bits) |-> IF i <= s THEN 0 ELSE bits[i]]
           IN  IF up THEN Add32(Word(kept), PowerOfTwo32(s)) ELSE Word(kept)
      ELSE LET n == 1 - s
               fb == FractionBits(fr)
               ones == \A i \in 1..n : fb[i] = 1
               sticky ==
                 \/ \E i \in (n + 1)..Len(fb) : fb[i] = 1
                 \/ ~IsZero(Shifted(FractionLimbs(fr), FractionSteps))
               up == ones /\ (sticky \/ n >= 2 \/ bits[1] = 1)
           IN  IF up THEN Add32(Word(bits), PowerOfTwo32(0)) ELSE Word(bits)

\* The signed 32-bit integer with the bits of x, or of -x.
Signed32(x, negative) ==
  LET s == IF x.hi >= Half \div 2 THEN (x.hi - Half) * Half + x.lo
           ELSE x.hi * Half + x.lo
  IN  IF negative /\ ~(x.hi = Half \div 2 /\ x.lo = 0) THEN 0 - s ELSE s

\* A decimal integer of more digits than this is 2^85 or more: its Number
\* is a multiple of 2^32.
IntegerDigitsCap == 26

\* The first place of one of the characters cs in s, Len(s) + 1 if none.
IndexOf(s, cs) ==
  IF \E i \in 1..Len(s) : s[i] \in cs
  THEN CHOOSE i \in 1..Len(s) : s[i] \in cs /\ \A j \in 1..(i - 1) : s[j] \notin cs
  ELSE Len(s) + 1

\* With an exponent of this size a literal s has more than
\* IntegerDigitsCap integer digits, or none before its decimal point and a
\* zero after it, wherever its first digit is: a larger exponent gives
\* the same word.
ExponentCap(s) == Len(s) + IntegerDigitsCap + 1

\* The value of an exponent's digits, or cap when the value is more than
\* cap.  cap is below 2^31 (a text has fewer than 2^30 characters), so an
\* exponent of more than ten significant digits is more than cap; one of
\* up to ten is compared with cap in two parts, the digits before the last
\* five and the last five.
SmallNat(digits, cap) ==
  LET first == IndexOf(digits, {"1", "2", "3", "4", "5", "6", "7", "8", "9"})
      sig == SubSeq(digits, first, Len(digits))
      split == IF Len(sig) > 5 THEN Len(sig) - 5 ELSE 0
      Value(part) == SumSeq([i \in 1..Len(part) |->
                               DigitValue(part[i]) * 10^(Len(part) - i)])
      hi == Value(SubSeq(sig, 1, split))
      lo == Value(SubSeq(sig, split + 1, Len(sig)))
  IN  IF Len(sig) > 10 THEN cap
      ELSE IF hi > cap \div 100000
              \/ (hi = cap \div 100000 /\ lo > cap % 100000) THEN cap
      ELSE hi * 100000 + lo

Zeros(n) == [i \in 1..n |-> 0]

\* An unsigned StrDecimalLiteral other than Infinity: ToInt32 of its
\* Number, as a 32-bit word; [ok |-> FALSE] for a text that is none.
\* The digits d1...dk with the decimal point after the first `point` of
\* them denote I + F; below 0.1 and from 10^26 on the word is 0.
DecimalLiteral(s) ==
  LET e == IndexOf(s, {"e", "E"})
      mantissa == SubSeq(s, 1, e - 1)
      exponent == SubSeq(s, e + 1, Len(s))
      expNegative == exponent # << >> /\ exponent[1] = "-"
      expDigits == IF exponent # << >> /\ exponent[1] \in {"+", "-"}
                   THEN Tail(exponent) ELSE exponent
      dot == IndexOf(mantissa, {"."})
      intPart == SubSeq(mantissa, 1, dot - 1)
      fracPart == SubSeq(mantissa, dot + 1, Len(mantissa))
      digits == intPart \o fracPart
      wellFormed ==
        /\ digits # << >> /\ AllDigits(digits, 10)
        /\ e <= Len(s) => (expDigits # << >> /\ AllDigits(expDigits, 10))
      exp == SmallNat(expDigits, ExponentCap(s))
      point == Len(intPart) + (IF expNegative THEN 0 - exp ELSE exp)
      ds == DigitValues(digits)
      first == IndexOf(digits, {"1", "2", "3", "4", "5", "6", "7", "8", "9"})
      integer == IF point <= Len(ds) THEN SubSeq(ds, first, point)
                 ELSE SubSeq(ds, first, Len(ds)) \o Zeros(point - Len(ds))
      fraction == SubSeq(ds, point + 1, Len(ds))
      value == IF first > Len(ds) \/ point < 0
                  \/ point - first + 1 > IntegerDigitsCap
               THEN [hi |-> 0, lo |-> 0]
               ELSE RoundedWord(DecimalToBits(integer), fraction)
  IN  IF wellFormed THEN [ok |-> TRUE, value |-> value]
      ELSE [ok |-> FALSE]

\* A literal with a radix prefix (0x, 0o, 0b in either case): ToInt32 of
\* its Number, as a 32-bit word.
RadixLiteral(s) ==
  LET base == IF Len(s) < 2 \/ s[1] # "0" THEN 0
              ELSE IF s[2] \in {"x", "X"} THEN 16
              ELSE IF s[2] \in {"o", "O"} THEN 8
              ELSE IF s[2] \in {"b", "B"} THEN 2
              ELSE 0
      width == IF base = 16 THEN 4 ELSE IF base = 8 THEN 3 ELSE 1
      digits == SubSeq(s, 3, Len(s))
  IN  IF base # 0 /\ digits # << >> /\ AllDigits(digits, base)
      THEN [ok |-> TRUE,
            value |-> RoundedWord(RadixToBits(DigitValues(digits), width), << >>)]
      ELSE [ok |-> FALSE]

\* ~~x for a text x: ToNumber of the text (white space trimmed; a radix
\* literal, or a signed decimal literal; anything else is NaN), which
\* rounds the value the text denotes to the nearest Number, and then
\* ToInt32 (truncation toward zero, modulo 2^32; NaN and the infinities
\* give 0).
ToInt32(env) ==
  LET s == TrimRight(TrimLeft(env))
      signed == s # << >> /\ s[1] \in {"+", "-"}
      negative == s # << >> /\ s[1] = "-"
      body == IF signed THEN Tail(s) ELSE s
      radix == RadixLiteral(s)
      decimal == DecimalLiteral(body)
  IN  IF radix.ok THEN Signed32(radix.value, FALSE)
      ELSE IF decimal.ok THEN Signed32(decimal.value, negative)
      ELSE 0

DefaultFilter == 10

\* ~~process.env[...] || 10
Filter(env) == IF ToInt32(env) # 0 THEN ToInt32(env) ELSE DefaultFilter

(***************************************************************************)
(* The state: the module variables of lib/index.js, the clock, the fibers. *)
(***************************************************************************)
VARIABLES
  enabled,              \* index.js 170
  filter,               \* index.js 171
  bucketTimes,          \* index.js 173
  bucketTimesAndOther,  \* index.js 176
  entries,              \* index.js 271
  globalEntry,          \* index.js 187
  running,              \* index.js 189
  fiber,                \* per fiber: profilerEntry and timers (index.js 216, 232)
  stack,                \* per thread: the frames of the calls it has open
  clock,                \* getrusage.getcputime(), process wide
  exited,               \* process.exit(1) was called
  calls,                \* wrapped calls and run() calls made so far
  incs,                 \* manual increase() calls made so far
  intervals,            \* per path: the durations recorded under it since start()
  last,                 \* the last operation and what its caller observed
  timer,                \* a Timer driven directly (SpecTimer)
  variant,              \* which Timer source that Timer is built from
  stopped               \* the durations its onStopped callback received

vars == <<enabled, filter, bucketTimes, bucketTimesAndOther, entries,
          globalEntry, running, fiber, stack, clock, exited, calls, incs,
          intervals, last, timer, variant, stopped>>

timerVars == <<timer, variant, stopped>>

profilerVars == <<enabled, filter, bucketTimes, bucketTimesAndOther, entries,
                  globalEntry, running, fiber, stack, calls, incs, intervals>>

NoIntervals == [p \in Paths |-> 0]

Init ==
  /\ \E env \in EnvValues : enabled = Enabled(env) /\ filter = Filter(env)
  /\ bucketTimes = << >>
  /\ bucketTimesAndOther = << >>
  /\ entries = << >>
  /\ globalEntry = << >>
  /\ running = FALSE
  /\ fiber = [t \in Fibers |-> [profilerEntry |-> << >>, timers |-> << >>]]
  /\ stack = [t \in Threads |-> << >>]
  /\ clock = 0
  /\ exited = FALSE
  /\ calls = 0
  /\ incs = 0
  /\ intervals = NoIntervals
  /\ last = [op |-> "init"]
  /\ timer = Timer(<<"a">>, "returns", 0)
  /\ variant = "lib"
  /\ stopped = << >>

\* A Timer of either source, with any of the callbacks, driven directly.
InitTimer ==
  /\ enabled = FALSE
  /\ filter = DefaultFilter
  /\ bucketTimes = << >>
  /\ bucketTimesAndOther = << >>
  /\ entries = << >>
  /\ globalEntry = << >>
  /\ running = FALSE
  /\ fiber = [t \in Fibers |-> [profilerEntry |-> << >>, timers |-> << >>]]
  /\ stack = [t \in Threads |-> << >>]
  /\ clock = 0
  /\ exited = FALSE
  /\ calls = 0
  /\ incs = 0
  /\ intervals = NoIntervals
  /\ last = [op |-> "init"]
  /\ \E onStopped \in Callbacks : timer = Timer(<<"a">>, onStopped, 0)
  /\ variant \in Variants
  /\ stopped = << >>

\* Mutant of currentEntry: every fiber uses the path of fiber 1.
currentEntryOfOneFiber(t) ==
  IF t = NoFiber THEN globalEntry ELSE fiber[1].profilerEntry

\* The live call path of thread t: Fiber.current.profilerEntry or globalEntry.
currentEntry(t) == IF t = NoFiber THEN globalEntry ELSE fiber[t].profilerEntry

\* Mutant of currentTimers: every fiber uses the timer stack of fiber 1.
currentTimersOfOneFiber(t) == IF t = NoFiber THEN << >> ELSE fiber[1].timers

\* The timers thread t has pushed (none outside a fiber).
currentTimers(t) == IF t = NoFiber THEN << >> ELSE fiber[t].timers

\* The identities of the Timers still referenced by an open call.
LiveTimers ==
  UNION {{stack[t][i].timer.uid :
            i \in {j \in 1..Len(stack[t]) : stack[t][j].kind = "measured"}} :
         t \in Threads}

\* A fresh object identity: the least one no live Timer has.
NewUid ==
  CHOOSE n \in 1..(Cardinality(LiveTimers) + 1) :
    n \notin LiveTimers /\ \A m \in 1..(n - 1) : m \in LiveTimers

Front(s) == SubSeq(s, 1, Len(s) - 1)

(***************************************************************************)
(* increase: lib/index.js 258-269.  arg is the `entry` argument: a path    *)
(* ([array |-> TRUE, v |-> path]) or a bare name ([array |-> FALSE, ...]). *)
(* JSON.stringify is one-to-one on arrays of strings, so the path itself   *)
(* is the key.                                                             *)
(***************************************************************************)
entryKey(arg) == IF arg.array THEN arg.v ELSE <<arg.v>>

\* Mutant of increaseAssign: the new duration replaces the old value.
increaseOverwrite(bt, key, durationMs) == Put(bt, key, durationMs)

\* index.js 268
increaseAssign(bt, key, durationMs) ==
  Put(bt, key, (IF Has(bt, key) THEN Get(bt, key) ELSE 0) + durationMs)

increase(bt, en, arg, durationMs) ==
  IF ~en THEN bt ELSE increaseAssign(bt, entryKey(arg), durationMs)

\* Mutant of setupReport: `entries` is not reset, the paths of the table
\* are pushed onto the list the last report left.
setupReportAppending(bt) ==
  LET es0 == entries \o Keys(bt)
      parents == SelectSeq(es0, LAMBDA e : hasChildren(es0, e))
  IN  injectEach([entries |-> es0, bto |-> bt], bt, parents)

\* index.js 388-394: `entries` and `bucketTimesAndOther` are assigned anew
\* from bucketTimes, then the "other" entries are injected.
setupReport(bt) ==
  LET es0 == Keys(bt)
      parents == SelectSeq(es0, LAMBDA e : hasChildren(es0, e))
  IN  injectEach([entries |-> es0, bto |-> bt], bt, parents)

(***************************************************************************)
(* report / reportWithoutStopping: lib/index.js 396-408.  The new values   *)
(* of the variables report() writes, and the lines it prints: one outcome  *)
(* for each order in which the sort may leave totals of the same time.     *)
(***************************************************************************)
report(bt) ==
  IF ~enabled
  THEN {[running |-> running, entries |-> entries,
         bto |-> bucketTimesAndOther, ran |-> FALSE, lines |-> << >>]}
  ELSE LET st == setupReport(bt)
       IN  {[running |-> FALSE, entries |-> st.entries, bto |-> st.bto,
             ran |-> TRUE, lines |-> lines] :
            lines \in reportLines(st, filter)}

\* History: an open call that found the session running (index.js 209)
\* is marked stale when that session ends.
MarkStale(frames) ==
  [i \in 1..Len(frames) |->
     IF frames[i].kind \in {"naming", "measured"}
     THEN [frames[i] EXCEPT !.stale = TRUE]
     ELSE frames[i]]

MarkAllStale(stk) == [t \in Threads |-> MarkStale(stk[t])]

\* Mutant of start: no check of `running`.
startUnchecked ==
  /\ ~exited
  /\ bucketTimes' = << >>
  /\ bucketTimesAndOther' = << >>
  /\ running' = TRUE
  /\ intervals' = NoIntervals
  /\ last' = [op |-> "start", res |-> "ok"]
  /\ UNCHANGED <<enabled, filter, entries, globalEntry, fiber, stack, clock,
                 exited, calls, incs, timer, variant, stopped>>

(***************************************************************************)
(* start: lib/index.js 191-199.                                            *)
(***************************************************************************)
start ==
  /\ ~exited
  /\ IF running
     THEN /\ last' = [op |-> "start", res |-> "Already running"]
          /\ UNCHANGED <<bucketTimes, bucketTimesAndOther, running, intervals>>
     ELSE /\ bucketTimes' = << >>
          /\ bucketTimesAndOther' = << >>
          /\ running' = TRUE
          /\ intervals' = NoIntervals
          /\ last' = [op |-> "start", res |-> "ok"]
  /\ UNCHANGED <<enabled, filter, entries, globalEntry, fiber, stack, clock,
                 exited, calls, incs, timerVars>>

(***************************************************************************)
(* stop: lib/index.js 419-430.  The report goes to printToBuffer, which is *)
(* joined into the returned string and reset to null.                      *)
(***************************************************************************)
stop ==
  /\ ~exited
  /\ IF ~running
     THEN /\ last' = [op |-> "stop", res |-> "not running"]
          /\ UNCHANGED <<bucketTimesAndOther, entries, running, stack>>
     ELSE \E r \in report(bucketTimes) :
            LET printToBuffer == << >> \o r.lines
            IN
              /\ entries' = r.entries
              /\ bucketTimesAndOther' = r.bto
              /\ running' = FALSE
              /\ stack' = MarkAllStale(stack)
              /\ last' = [op |-> "stop", res |-> "ok", value |-> printToBuffer]
  /\ UNCHANGED <<enabled, filter, bucketTimes, globalEntry, fiber, clock,
                 exited, calls, incs, intervals, timerVars>>

(***************************************************************************)
(* Profile.increase called by hand.                                        *)
(***************************************************************************)
Increase(arg, durationMs) ==
  /\ ~exited
  /\ incs < MaxIncs
  /\ incs' = incs + 1
  /\ bucketTimes' = increase(bucketTimes, enabled, arg, durationMs)
  /\ intervals' = IF enabled
                  THEN [intervals EXCEPT ![entryKey(arg)] = @ + durationMs]
                  ELSE intervals
  /\ last' = [op |-> "increase", key |-> entryKey(arg), ms |-> durationMs]
  /\ UNCHANGED <<enabled, filter, bucketTimesAndOther, entries, globalEntry,
                 running, fiber, stack, clock, exited, calls, timerVars>>

IncreaseArgs ==
  {[array |-> FALSE, v |-> "a"],
   [array |-> TRUE, v |-> <<"a", "a">>],
   [array |-> TRUE, v |-> <<"a", "other a">>]}

\* CPU time passes, up to `most`.
TickTo(most) ==
  /\ ~exited
  /\ clock < most
  /\ clock' = clock + 1
  /\ UNCHANGED <<profilerVars, exited, last, timerVars>>

Tick == TickTo(MaxClock)

(***************************************************************************)
(* The wrapper Profile returns: lib/index.js 201-252.  A call is the entry *)
(* (up to f.apply) and the exit (f returned or threw, and the finally      *)
(* block).  When the bucket name is given by a naming function the entry   *)
(* is two steps: `running` is read and the naming function called (209 to  *)
(* 212), and, when that function has returned, the name is pushed and the  *)
(* Timer started (214-235).  The naming function and f are code of the     *)
(* program: while they run they may call the profiler, and other threads   *)
(* may run.                                                                *)
(***************************************************************************)
\* History kept in a frame: the thread's path and timers before the call.
Before(t) == [entry |-> currentEntry(t), timers |-> currentTimers(t)]

\* index.js 202 and 209: f itself is called, nothing is measured.
plainFrame(t, isRun) == [kind |-> "plain", run |-> isRun, before |-> Before(t)]

\* index.js 212: the naming function, which will return `name`, is running;
\* nothing has been pushed yet.
namingFrame(t, name, isRun) ==
  [kind |-> "naming", name |-> name, run |-> isRun, stale |-> FALSE,
   before |-> Before(t)]

\* Mutant of clone: the time is keyed by the bucket name alone.
cloneName(entry) == <<Last(entry)>>

\* index.js 224, _.clone(currentEntry): a copy of the path as it is now,
\* which later pushes and pops on the live path do not change.
clone(entry) == entry

\* index.js 214-235: the name is pushed, the Timer made, pushed and started.
measuredEntry(t, name, isRun) ==
  LET pushed == Append(currentEntry(t), name)
      timerCurrentEntry == clone(pushed)
      made == TimerStart("lib", Timer(pushed, "returns", NewUid), clock)
  IN  [entry  |-> pushed,
       timers |-> IF t = NoFiber THEN << >>
                  ELSE Append(currentTimers(t), made.timer.uid),
       exited |-> made.outcome = "exit",
       frame  |-> [kind |-> "measured", name |-> name, run |-> isRun,
                   stale |-> FALSE, timer |-> made.timer,
                   timerCurrentEntry |-> timerCurrentEntry,
                   before |-> Before(t)]]

\* Mutant of callsDirectly: a call outside a session is measured too.
callsDirectlyIfDisabled(isRunning) == ~enabled

\* index.js 202 and 209: when the wrapper hands the call straight to f.
callsDirectly(isRunning) == ~enabled \/ ~isRunning

\* The wrapper's entry on thread t, `isRunning` being `running` at the call.
\* dyn: the bucket name is given by a naming function, which is called
\* here and returns in a later step (Named).
Enter(t, name, dyn, isRun, isRunning) ==
  IF callsDirectly(isRunning)
  THEN /\ stack' = [stack EXCEPT ![t] = Append(@, plainFrame(t, isRun))]
       /\ last' = [op |-> IF isRun THEN "run" ELSE "call", res |-> "ok",
                   t |-> t, measured |-> FALSE, named |-> FALSE]
       /\ UNCHANGED <<globalEntry, fiber, exited>>
  ELSE IF dyn
  THEN /\ stack' = [stack EXCEPT ![t] =
                      Append(@, namingFrame(t, name, isRun))]
       /\ last' = [op |-> IF isRun THEN "run" ELSE "call", res |-> "ok",
                   t |-> t, measured |-> FALSE, named |-> TRUE]
       /\ UNCHANGED <<globalEntry, fiber, exited>>
  ELSE \E m \in {measuredEntry(t, name, isRun)} :
           /\ stack' = [stack EXCEPT ![t] = Append(@, m.frame)]
           /\ globalEntry' = IF t = NoFiber THEN m.entry ELSE globalEntry
           /\ fiber' = IF t = NoFiber THEN fiber
                        ELSE [fiber EXCEPT ![t] = [profilerEntry |-> m.entry,
                                                   timers |-> m.timers]]
           /\ exited' = m.exited
           /\ last' = [op |-> IF isRun THEN "run" ELSE "call", res |-> "ok",
                       t |-> t, measured |-> TRUE, named |-> dyn]

\* A call of a wrapped function (or Profile.time) on thread t, one of at
\* most `most` calls, with fewer than `depth` calls of the thread open.
CallOf(t, name, dyn, most, depth) ==
  /\ ~exited
  /\ calls < most
  /\ Len(stack[t]) < depth
  /\ calls' = calls + 1
  /\ Enter(t, name, dyn, FALSE, running)
  /\ UNCHANGED <<enabled, filter, bucketTimes, bucketTimesAndOther, entries,
                 running, clock, incs, intervals, timerVars>>

Call(t, name, dyn) == CallOf(t, name, dyn, MaxCalls, MaxDepth)

\* index.js 212-235: the naming function of thread t's innermost open call
\* returns the bucket name; the name is pushed onto the path as it is now,
\* the Timer is made, pushed and started at the CPU time of now.
Named(t) ==
  /\ ~exited
  /\ stack[t] # << >>
  /\ Last(stack[t]).kind = "naming"
  /\ \E fr \in {Last(stack[t])} :
     \E m \in {measuredEntry(t, fr.name, fr.run)} :
         /\ stack' = [stack EXCEPT ![t] =
                        Append(Front(@), [m.frame EXCEPT !.stale = fr.stale,
                                                         !.before = fr.before])]
         /\ globalEntry' = IF t = NoFiber THEN m.entry ELSE globalEntry
         /\ fiber' = IF t = NoFiber THEN fiber
                      ELSE [fiber EXCEPT ![t] = [profilerEntry |-> m.entry,
                                                 timers |-> m.timers]]
         /\ exited' = m.exited
         /\ last' = [op |-> "named", res |-> "ok", t |-> t, measured |-> TRUE,
                     named |-> TRUE]
  /\ UNCHANGED <<enabled, filter, bucketTimes, bucketTimesAndOther, entries,
                 running, clock, calls, incs, intervals, timerVars>>

(***************************************************************************)
(* run: lib/index.js 410-417.  Its entry is start() and the entry of       *)
(* time(bucketName, f); its exit is the exit of that call and report().    *)
(* The bucket name may be a naming function (dyn), as for any wrapper; the *)
(* finally block of run calls report() however time() ends, also when the  *)
(* naming function throws.                                                 *)
(***************************************************************************)
Run(t, name, dyn) ==
  /\ ~exited
  /\ calls < MaxCalls
  /\ Len(stack[t]) < MaxDepth
  /\ IF running
     THEN /\ last' = [op |-> "run", res |-> "Already running"]
          /\ UNCHANGED <<bucketTimes, bucketTimesAndOther, running, intervals,
                         stack, globalEntry, fiber, exited, calls>>
     ELSE /\ bucketTimes' = << >>
          /\ bucketTimesAndOther' = << >>
          /\ running' = TRUE
          /\ intervals' = NoIntervals
          /\ calls' = calls + 1
          /\ Enter(t, name, dyn, TRUE, TRUE)
  /\ UNCHANGED <<enabled, filter, entries, clock, incs, timerVars>>

\* Mutant of finallyRuns: the cleanup is skipped when f throws.
finallyRunsOnReturn(how) == how = "return"

\* try { return f.apply(this, args); } finally { ... }: the finally block
\* runs however f ends.
finallyRuns(how) == TRUE

\* [].pop() of an empty array: undefined, which is no Timer.
Undefined == 0

\* index.js 241-249 for the frame fr on top of thread t's stack.  The
\* Timer is stopped (a stopped Timer ends the process); on a fiber the top
\* of Fiber.current.timers is popped, and when it is another Timer the
\* message is traced and the process ends.  When the array was empty the
\* message itself fails: `poppedTimer.id` of undefined is a TypeError,
\* which leaves the finally block before console.trace and process.exit,
\* so the name stays on the path and the caller gets the TypeError.
measuredExit(t, fr) ==
  LET st == TimerStop("lib", fr.timer, clock, 0)
      stoppedOk == st.outcome = "ok"
      bt == IF stoppedOk
            THEN increase(bucketTimes, enabled,
                          [array |-> TRUE, v |-> fr.timerCurrentEntry],
                          st.onStopped[1])
            ELSE bucketTimes
      popTimer == stoppedOk /\ t # NoFiber
      poppedTimer == IF currentTimers(t) = << >> THEN Undefined
                     ELSE Last(currentTimers(t))
      typeError == popTimer /\ poppedTimer = Undefined
      unexpected == popTimer /\ poppedTimer # Undefined
                             /\ poppedTimer # fr.timer.uid
      done == stoppedOk /\ ~unexpected /\ ~typeError
  IN  [bt     |-> bt,
       added  |-> IF stoppedOk THEN st.onStopped ELSE << >>,
       timers |-> IF popTimer THEN Front(currentTimers(t)) ELSE currentTimers(t),
       entry  |-> IF done THEN Front(currentEntry(t)) ELSE currentEntry(t),
       exited |-> ~stoppedOk \/ unexpected,
       error  |-> typeError]

\* The wrapped function f of thread t's innermost open call returns or
\* throws (how); then the wrapper's finally block, then run's.  While the
\* naming function of that call is still running, the call can only end by
\* that function throwing: index.js 212 is outside the try, so the
\* exception leaves the wrapper with nothing pushed and nothing to undo.
Exit(t, how) ==
  /\ ~exited
  /\ stack[t] # << >>
  /\ Last(stack[t]).kind = "naming" => how = "throw"
  /\ \E fr \in {Last(stack[t])} :
     \E m \in {IF fr.kind = "measured" /\ finallyRuns(how)
                THEN measuredExit(t, fr)
                ELSE [bt |-> bucketTimes, added |-> << >>,
                      timers |-> currentTimers(t), entry |-> currentEntry(t),
                      exited |-> FALSE, error |-> FALSE]} :
     \E r \in IF fr.run /\ ~m.exited THEN report(m.bt)
               ELSE {[running |-> running, entries |-> entries,
                      bto |-> bucketTimesAndOther, ran |-> FALSE,
                      lines |-> << >>]} :
     \E popped \in {[stack EXCEPT ![t] = Front(@)]} :
         /\ bucketTimes' = m.bt
         /\ intervals' = IF m.added = << >> THEN intervals
                         ELSE [intervals EXCEPT
                                 ![fr.timerCurrentEntry] = @ + m.added[1]]
         /\ globalEntry' = IF t = NoFiber THEN m.entry ELSE globalEntry
         /\ fiber' = IF t = NoFiber THEN fiber
                      ELSE [fiber EXCEPT ![t] = [profilerEntry |-> m.entry,
                                                 timers |-> m.timers]]
         /\ exited' = m.exited
         /\ running' = r.running
         /\ entries' = r.entries
         /\ bucketTimesAndOther' = r.bto
         /\ stack' = IF m.exited THEN stack
                     ELSE IF r.ran THEN MarkAllStale(popped) ELSE popped
         /\ last' = [op |-> "exit",
                     res |-> IF m.error THEN "TypeError" ELSE how, t |-> t,
                     kind |-> fr.kind,
                     measured |-> fr.kind = "measured",
                     stale |-> fr.kind = "measured" /\ fr.stale,
                     added |-> m.added, run |-> fr.run,
                     reported |-> r.ran, console |-> r.lines,
                     before |-> fr.before]
  /\ UNCHANGED <<enabled, filter, clock, calls, incs, timerVars>>

(***************************************************************************)
(* The profiler under any interleaving of its threads.                     *)
(***************************************************************************)
Next ==
  \/ start
  \/ stop
  \/ \E t \in Threads, name \in Names, dyn \in BOOLEAN : Call(t, name, dyn)
  \/ \E t \in Threads : Named(t)
  \/ \E t \in Threads, name \in Names, dyn \in BOOLEAN : Run(t, name, dyn)
  \/ \E t \in Threads, how \in {"return", "throw"} : Exit(t, how)
  \/ \E arg \in IncreaseArgs, durationMs \in IncAmounts : Increase(arg, durationMs)
  \/ Tick

Spec == Init /\ [][Next]_vars

(***************************************************************************)
(* The calls of a program that never calls start() or stop() itself.       *)
(***************************************************************************)
NextRuns ==
  \/ \E t \in Threads, name \in Names, dyn \in BOOLEAN : Call(t, name, dyn)
  \/ \E t \in Threads : Named(t)
  \/ \E t \in Threads, name \in Names, dyn \in BOOLEAN : Run(t, name, dyn)
  \/ \E t \in Threads, how \in {"return", "throw"} : Exit(t, how)
  \/ \E arg \in IncreaseArgs, durationMs \in IncAmounts : Increase(arg, durationMs)
  \/ Tick

SpecRuns == Init /\ [][NextRuns]_vars

(***************************************************************************)
(* A program with profiling enabled that feeds the table by wrapped calls  *)
(* only, and starts and stops sessions at any point.                       *)
(***************************************************************************)
InitWrapped ==
  /\ enabled = Enabled(<<"1", "0">>)
  /\ filter = Filter(<<"1", "0">>)
  /\ bucketTimes = << >>
  /\ bucketTimesAndOther = << >>
  /\ entries = << >>
  /\ globalEntry = << >>
  /\ running = FALSE
  /\ fiber = [t \in Fibers |-> [profilerEntry |-> << >>, timers |-> << >>]]
  /\ stack = [t \in Threads |-> << >>]
  /\ clock = 0
  /\ exited = FALSE
  /\ calls = 0
  /\ incs = 0
  /\ intervals = NoIntervals
  /\ last = [op |-> "init"]
  /\ timer = Timer(<<"a">>, "returns", 0)
  /\ variant = "lib"
  /\ stopped = << >>

\* The calls open, over all threads.
OpenCalls ==
  Len(stack[NoFiber]) + SumSeq([t \in Fibers |-> Len(stack[t])])

NextWrapped ==
  \/ /\ OpenCalls <= MaxSpanning
     /\ start
  \/ /\ OpenCalls <= MaxSpanning
     /\ stop
  \/ \E t \in Threads, name \in Names :
       CallOf(t, name, FALSE, MaxWrapped, MaxNesting)
  \/ \E t \in Threads, how \in {"return", "throw"} : Exit(t, how)
  \/ TickTo(MaxWrappedClock)

SpecWrapped == InitWrapped /\ [][NextWrapped]_vars

(***************************************************************************)
(* A Timer driven directly: any order of start() and stop() calls.         *)
(***************************************************************************)
MaxStops == 3   \* stop() calls of the Timer driven directly that are measured

TimerStartCall ==
  /\ ~exited
  /\ Len(stopped) < MaxStops
  /\ \E r \in {TimerStart(variant, timer, clock)} :
       /\ timer' = r.timer
       /\ exited' = (r.outcome = "exit")
       /\ last' = [op |-> "Timer.start", res |-> r.outcome]
  /\ UNCHANGED <<profilerVars, clock, variant, stopped>>

\* timer.stop(); the callback of a running Timer uses any CPU time that is
\* left before it acts (a stopped Timer calls nothing).
TimerStopCall ==
  /\ ~exited
  /\ Len(stopped) < MaxStops
  /\ \E used \in IF timer.running THEN 0..(MaxClock - clock) ELSE {0} :
       \E r \in {TimerStop(variant, timer, clock, used)} :
         /\ timer' = r.timer
         /\ stopped' = stopped \o r.onStopped
         /\ exited' = (r.outcome = "exit")
         /\ clock' = clock + used
         /\ last' = [op |-> "Timer.stop", res |-> r.outcome, used |-> used]
  /\ UNCHANGED <<profilerVars, variant>>

NextTimer ==
  \/ TimerStartCall
  \/ TimerStopCall
  \/ Tick

SpecTimer == InitTimer /\ [][NextTimer]_vars

(***************************************************************************)
(* The report of a session whose table Profile.increase filled: any paths, *)
(* in any order of insertion, with times below, at and above the filter.   *)
(***************************************************************************)
TableTimes == {5, 10, 20}

\* METEOR_PROFILE_SERVER of such a session: a filter of 10 ms or of 20 ms.
ReportEnvValues == {<<"1", "0">>, <<"2", "0">>}

\* The tables of n distinct paths, in every order of insertion.
RECURSIVE TablesOfLen(_)
TablesOfLen(n) ==
  IF n = 0 THEN {<< >>}
  ELSE UNION {{Append(tb, <<p, x>>) :
                 p \in TablePaths \ {tb[i][1] : i \in 1..Len(tb)},
                 x \in TableTimes} :
              tb \in TablesOfLen(n - 1)}

InitReport ==
  /\ \E env \in ReportEnvValues : enabled = Enabled(env) /\ filter = Filter(env)
  /\ \E n \in 0..MaxKeys : bucketTimes \in TablesOfLen(n)
  /\ bucketTimesAndOther = << >>
  /\ entries = << >>
  /\ globalEntry = << >>
  /\ running = TRUE
  /\ fiber = [t \in Fibers |-> [profilerEntry |-> << >>, timers |-> << >>]]
  /\ stack = [t \in Threads |-> << >>]
  /\ clock = 0
  /\ exited = FALSE
  /\ calls = 0
  /\ incs = 0
  /\ intervals = NoIntervals
  /\ last = [op |-> "init"]
  /\ timer = Timer(<<"a">>, "returns", 0)
  /\ variant = "lib"
  /\ stopped = << >>

NextReport ==
  \/ stop
  \/ start

SpecReport == InitReport /\ [][NextReport]_vars

(***************************************************************************)
(* setupReport applied, several times in a row, to a table that does not   *)
(* change in between.                                                      *)
(***************************************************************************)
SetupReportCall ==
  /\ ~exited
  /\ last.op = "setupReport" => last.runs < MaxSetups
  /\ \E st \in {setupReport(bucketTimes)} :
       /\ entries' = st.entries
       /\ bucketTimesAndOther' = st.bto
  /\ last' = [op |-> "setupReport",
              runs |-> IF last.op = "setupReport" THEN last.runs + 1 ELSE 1]
  /\ UNCHANGED <<enabled, filter, bucketTimes, globalEntry, running, fiber,
                 stack, clock, exited, calls, incs, intervals, timerVars>>

NextSetup == SetupReportCall

SpecSetup == InitReport /\ [][NextSetup]_vars

(***************************************************************************)
(* Properties.                                                             *)
(***************************************************************************)
\* The value the table holds for a path, 0 for a path it does not hold.
Recorded(bt, path) == IF Has(bt, path) THEN Get(bt, path) ELSE 0

\* The state right after a report was built and printed.
Reported ==
  \/ last.op = "stop" /\ last.res = "ok" /\ enabled
  \/ last.op = "exit" /\ last.reported

\* The lines of that report.
ReportedLines == IF last.op = "stop" THEN last.value ELSE last.console

\* C3 (stack balance): when a wrapped call of a thread has returned or
\* thrown, the thread's call path and its timer stack are what they were
\* right before that call; a thread with no open call has both empty.
StackBalance ==
  /\ last.op = "exit" =>
       /\ currentEntry(last.t) = last.before.entry
       /\ currentTimers(last.t) = last.before.timers
  /\ \A t \in Threads :
       stack[t] = << >> => currentEntry(t) = << >> /\ currentTimers(t) = << >>

\* C3 witness: a nested measured call on a fiber threw after its session
\* had been stopped, and path and timers are back to the outer call's.
StackBalanceWitness ==
  /\ last.op = "exit" /\ last.res = "throw"
  /\ last.measured /\ last.stale
  /\ last.t # NoFiber
  /\ Len(last.before.entry) = 1
  /\ currentEntry(last.t) = last.before.entry
  /\ Len(currentTimers(last.t)) = 1

\* C4 (session state machine), as a property of every step: start() from
\* Idle empties both tables and sets running; start() from Running raises
\* "Already running" and changes neither; stop() from Running clears
\* running and returns the lines of the report; stop() from Idle raises
\* "not running" and changes no session state.
SessionStep ==
  /\ (last'.op = "start" /\ clock' = clock /\ ~running) =>
       /\ last'.res = "ok"
       /\ running' /\ bucketTimes' = << >> /\ bucketTimesAndOther' = << >>
  /\ (last'.op = "start" /\ clock' = clock /\ running) =>
       /\ last'.res = "Already running"
       /\ UNCHANGED <<running, bucketTimes, bucketTimesAndOther>>
  /\ (last'.op = "stop" /\ clock' = clock /\ running) =>
       /\ last'.res = "ok"
       /\ ~running'
       /\ last'.value \in IF enabled
                          THEN reportLines(setupReport(bucketTimes), filter)
                          ELSE {<< >>}
  /\ (last'.op = "stop" /\ clock' = clock /\ ~running) =>
       /\ last'.res = "not running"
       /\ UNCHANGED <<running, bucketTimes, bucketTimesAndOther, entries>>

\* C4: every step of the profiler is a SessionStep.
SessionStateMachine == [][SessionStep]_vars

\* C4 witness: start() was refused in a running session that had already
\* recorded a time, and the table is still there.
SessionStateMachineWitness ==
  /\ last.op = "start" /\ last.res = "Already running"
  /\ running /\ bucketTimes # << >>

\* C1 (accounting law): right after a report, every recorded path P with a
\* recorded child has, in the render table, accumulated(P) = the sum over
\* its recorded children + accumulated(P + ["other " + last(P)]).
AccountingLaw ==
  Reported =>
    \A i \in 1..Len(bucketTimes) :
      LET recorded == Keys(bucketTimes)
          P == recorded[i]
          cs == children(recorded, P)
      IN  hasChildren(recorded, P) =>
            entryTime(bucketTimesAndOther, P)
              = SumSeq([k \in 1..Len(cs) |->
                          entryTime(bucketTimesAndOther, cs[k])])
                + entryTime(bucketTimesAndOther, Append(P, OtherName(P)))

\* C2 (leaf total equals session total): right after a report in which no
\* entry of the render table is below the filter, the grand total printed
\* by the leaf view is the sum of the times of the top-level paths.
LeafTotalIsSessionTotal ==
  (/\ Reported
   /\ \A i \in 1..Len(entries) :
        ~(entryTime(bucketTimesAndOther, entries[i]) < filter))
  => LET tops == topLevelEntries(entries)
     IN  Last(ReportedLines)[3]
           = toFixed1(SumSeq([k \in 1..Len(tops) |->
                                entryTime(bucketTimesAndOther, tops[k])]))

\* C5 (run): when run(name, f) has exited, by f's return or by f's throw,
\* the session is Idle again.
RunLeavesIdle ==
  (last.op = "exit" /\ last.run) =>
    (~running /\ last.res \in {"return", "throw"})

\* C6 (disabled mode is transparent): with profiling disabled, in a program
\* that only calls wrapped functions, time, run and increase, the table
\* stays empty and no call ends in an error raised by the profiler.
DisabledTransparent ==
  ~enabled =>
    /\ bucketTimes = << >>
    /\ last.op \in {"call", "run", "exit"} =>
         last.res \in {"ok", "return", "throw"}

\* C7 (idle call), as a property of every step: a wrapped call made while
\* profiling is enabled and the session is Idle pushes no name and no
\* timer, invokes no naming function, and is a direct call of f; when such
\* a call completes, the table, the paths and the timers are unchanged.
IdleCallStep ==
  /\ (last'.op = "call" /\ calls' = calls + 1 /\ enabled /\ ~running) =>
       /\ ~last'.measured /\ ~last'.named
       /\ Last(stack'[last'.t]).kind = "plain"
       /\ UNCHANGED <<globalEntry, fiber, bucketTimes>>
  /\ (/\ last'.op = "exit" /\ enabled
      /\ Len(stack'[last'.t]) < Len(stack[last'.t])
      /\ Last(stack[last'.t]).kind = "plain") =>
       /\ last'.added = << >>
       /\ UNCHANGED <<globalEntry, fiber, bucketTimes>>

\* C7: every step of the profiler is an IdleCallStep.
IdleCallDirect == [][IdleCallStep]_vars

\* C7 witness: a call made while Idle completed inside a session that was
\* started during it, and the table of that session is still empty.
IdleCallDirectWitness ==
  /\ enabled /\ running
  /\ last.op = "exit" /\ last.kind = "plain" /\ ~last.run
  /\ bucketTimes = << >>

\* C8 (only time inside the session): a wrapped call adds its duration to
\* the table only while the session in which it began is still running.
OnlyInSession ==
  (last.op = "exit" /\ last.added # << >>) => ~last.stale

\* C9 (no lost updates): in a running session the table value of every path
\* is the sum of the durations recorded under that path since start(), and
\* a step that adds no negative amount lowers no value.
NoLostUpdate ==
  running => \A p \in Paths : Recorded(bucketTimes, p) = intervals[p]

NeverDecreases ==
  (/\ running /\ running'
   /\ ~(incs' # incs /\ last'.ms < 0)) =>
    \A p \in Paths : Recorded(bucketTimes', p) >= Recorded(bucketTimes, p)

\* C9: the table always equals the recorded sums, and never decreases
\* unless a negative amount is added by hand.
NoLostUpdates == []NoLostUpdate /\ [][NeverDecreases]_vars

\* C9 witness: with no manual increase, a call has just added a positive
\* duration to a path that now holds more time than has passed on the
\* clock: overlapping calls of several threads were summed under it.
NoLostUpdatesWitness ==
  /\ running /\ incs = 0
  /\ last.op = "exit" /\ last.added # << >> /\ last.added[1] > 0
  /\ \E p \in Paths :
       /\ Recorded(bucketTimes, p) > MsPerSec * clock
       /\ Recorded(bucketTimes, p) = intervals[p]

\* C10 (timer protocol), as a property of every step of a Timer of either
\* source, whatever its callback does: start() on a running Timer and
\* stop() on a stopped one end in the error outcome, change nothing and
\* call nothing; stop() on a running Timer ends well, hands the time since
\* its start() to the callback once (once more, with the time up to then,
\* for a stop() the callback itself makes) and leaves the Timer stopped.
\* A stop() of a running Timer is the step that calls the callback.
TimerStep ==
  /\ (last'.op = "Timer.start" /\ clock' = clock /\ timer.running) =>
       /\ last'.res \in {"exit", "throw"}
       /\ last'.res = "exit" => exited'
       /\ timer' = timer /\ stopped' = stopped
  /\ (last'.op = "Timer.stop" /\ clock' = clock /\ ~timer.running) =>
       /\ last'.res \in {"exit", "throw"}
       /\ last'.res = "exit" => exited'
       /\ timer' = timer /\ stopped' = stopped
  /\ (last'.op = "Timer.stop" /\ stopped' # stopped /\ timer.running) =>
       LET durationMs == MsPerSec * (clock - timer.startCPUTime)
           nestedMs == MsPerSec * (clock' - timer.startCPUTime)
       IN  /\ last'.res = "ok"
           /\ clock' = clock + last'.used
           /\ stopped' = stopped \o
                IF timer.onStopped = "stopsOnce"
                THEN <<durationMs, nestedMs>> ELSE <<durationMs>>
           /\ ~timer'.running

\* C10: every step of a Timer driven directly is a TimerStep.
TimerProtocol == [][TimerStep]_vars

\* C11 (snapshot keying), as a property of every step: the completion of a
\* measured call adds its duration to the table value of one key, the
\* thread's path before the call followed by the call's bucket name, and
\* leaves every other key and value of the table as they were.
SnapshotKeyStep ==
  (/\ last'.op = "exit"
   /\ Len(stack'[last'.t]) < Len(stack[last'.t])
   /\ Last(stack[last'.t]).kind = "measured") =>
    LET fr == Last(stack[last'.t])
        key == Append(fr.before.entry, fr.name)
    IN  /\ Len(last'.added) = 1
        /\ Has(bucketTimes', key)
        /\ Get(bucketTimes', key) = Recorded(bucketTimes, key) + last'.added[1]
        /\ Len(bucketTimes') =
             Len(bucketTimes) + (IF Has(bucketTimes, key) THEN 0 ELSE 1)
        /\ \A i \in 1..Len(bucketTimes) :
             bucketTimes[i][1] # key => bucketTimes'[i] = bucketTimes[i]

\* C11: every step of the profiler is a SnapshotKeyStep.
SnapshotKeying == [][SnapshotKeyStep]_vars

\* C11 witness: with no manual increase, an outer call has just completed
\* after a call nested in it pushed and popped its name; the outer time is
\* under the outer path and the nested path still holds the nested time.
SnapshotKeyingWitness ==
  /\ incs = 0 /\ running
  /\ last.op = "exit" /\ last.measured /\ last.before.entry = << >>
  /\ Len(last.added) = 1 /\ last.added[1] > 0
  /\ \A t \in Threads : stack[t] = << >>
  /\ Has(bucketTimes, <<"a">>) /\ Has(bucketTimes, <<"a", "other a">>)
  /\ Get(bucketTimes, <<"a">>) = last.added[1]
  /\ Len(bucketTimes) = 2

\* The lines of the hierarchical view in a printed report: those between
\* its two blank lines.
HierarchyLines ==
  LET lines == ReportedLines
      second == CHOOSE k \in 2..Len(lines) :
                  /\ lines[k] = blankLine
                  /\ \A j \in 2..(k - 1) : lines[j] # blankLine
  IN  {lines[j] : j \in 2..(second - 1)}

\* The lines of the leaf view: those after the second blank line.
LeafLines ==
  LET lines == ReportedLines
      second == CHOOSE k \in 2..Len(lines) :
                  /\ lines[k] = blankLine
                  /\ \A j \in 2..(k - 1) : lines[j] # blankLine
  IN  SubSeq(lines, second + 1, Len(lines))

\* C12 as stated (hierarchical view filtering): no line of the hierarchical
\* view is below the filter, and below a top-level parent that is itself
\* under the filter every leaf child at or above the filter is printed.
SubThresholdParentWalked ==
  Reported =>
    /\ \A l \in HierarchyLines : l[3] >= toFixed1(filter)
    /\ \A i \in 1..Len(entries) :
         LET P == entries[i]
             cs == children(entries, P)
         IN  (/\ isTopLevelEntry(P) /\ hasChildren(entries, P)
              /\ entryTime(bucketTimesAndOther, P) < filter) =>
               \A k \in 1..Len(cs) :
                 (/\ isLeaf(entries, cs[k])
                  /\ ~(entryTime(bucketTimesAndOther, cs[k]) < filter)) =>
                   printLine(1, entryName(cs[k]),
                             entryTime(bucketTimesAndOther, cs[k]))
                     \in HierarchyLines

\* A path of the entry list the hierarchical walk reaches and prints: the
\* path and every path above it is in the list and not below the filter.
Shown(e) ==
  \A n \in 1..Len(e) :
    /\ \E j \in 1..Len(entries) : entries[j] = SubSeq(e, 1, n)
    /\ ~(entryTime(bucketTimesAndOther, SubSeq(e, 1, n)) < filter)

\* C12 amended: the hierarchical view prints a line for a path exactly
\* when the path and all the paths above it are not below the filter: a
\* path below the filter, leaf or parent, prints nothing, and nothing is
\* printed for any path under it.
SubThresholdSubtreeSkipped ==
  Reported =>
    HierarchyLines =
      {printLine(Len(entries[i]) - 1, entryName(entries[i]),
                 entryTime(bucketTimesAndOther, entries[i])) :
         i \in {j \in 1..Len(entries) : Shown(entries[j])}}

\* C12 witness: a report of a table with a top-level parent below the
\* filter and a leaf child of it above the filter; the hierarchical view
\* printed another top-level path but no line at the child's level.
SubThresholdSubtreeSkippedWitness ==
  /\ Reported
  /\ Has(bucketTimes, <<"a">>) /\ Get(bucketTimes, <<"a">>) < filter
  /\ Has(bucketTimes, <<"a", "a">>) /\ Get(bucketTimes, <<"a", "a">>) >= filter
  /\ isLeaf(entries, <<"a", "a">>)
  /\ HierarchyLines # {}
  /\ \A l \in HierarchyLines : l[1] = 0

\* The lines the leaf view printed for bucket names: all but its last line,
\* the grand total.
NameLines == Front(LeafLines)

\* The leaf paths of the entry list that end in a name, each path once.
LeafPathsNamed(name) ==
  Uniq(SelectSeq(entries,
                 LAMBDA e : isLeaf(entries, e) /\ entryName(e) = name))

\* C13 (same-name buckets at different parents): in a printed report the
\* leaf view has at most one line per terminal bucket name, the time of a
\* line is the sum of the render-table times of the leaf paths ending in
\* its name, and the lines are in non-increasing order of time; the
\* hierarchical view has a line of its own, at the depth of the path, for
\* every leaf path the walk reaches.
SameNameBuckets ==
  Reported =>
    /\ \A i, j \in 1..Len(NameLines) :
         NameLines[i][2] = NameLines[j][2] => i = j
    /\ \A i \in 1..Len(NameLines) :
         LET ps == LeafPathsNamed(NameLines[i][2])
         IN  NameLines[i][3] =
               toFixed1(SumSeq([k \in 1..Len(ps) |->
                                  entryTime(bucketTimesAndOther, ps[k])]))
    /\ \A i \in 1..(Len(NameLines) - 1) :
         NameLines[i][3] >= NameLines[i + 1][3]
    /\ \A i \in 1..Len(entries) :
         (isLeaf(entries, entries[i]) /\ Shown(entries[i])) =>
           printLine(Len(entries[i]) - 1, entryName(entries[i]),
                     entryTime(bucketTimesAndOther, entries[i]))
             \in HierarchyLines

\* Right after a report the render table holds every recorded path with
\* its recorded value, and the entry list holds no path twice.
CopyPlusOthers ==
  Reported =>
    /\ \A i \in 1..Len(bucketTimes) :
         /\ Has(bucketTimesAndOther, bucketTimes[i][1])
         /\ Get(bucketTimesAndOther, bucketTimes[i][1]) = bucketTimes[i][2]
    /\ \A i, j \in 1..Len(entries) : entries[i] = entries[j] => i = j

\* stop(), and with it the report, leaves the Accumulation Table alone.
ReportKeepsTable ==
  (last'.op = "stop" /\ clock' = clock) => bucketTimes' = bucketTimes

\* C14 (the render table is a copy plus injected "other" entries): after
\* every report, for recorded paths of any names, the render table holds
\* each recorded path with the same value and the entry list has no path
\* twice; and the report does not modify the Accumulation Table.
RenderTableIsCopy == []CopyPlusOthers /\ [][ReportKeepsTable]_vars

\* The measured calls among some frames, outermost first.
MeasuredFrames(frames) == SelectSeq(frames, LAMBDA fr : fr.kind = "measured")

\* The bucket names of the measured calls among some frames.
MeasuredNames(frames) ==
  LET ms == MeasuredFrames(frames) IN [i \in 1..Len(ms) |-> ms[i].name]

\* The path and the timers of every thread are those of the measured calls
\* the thread itself has open, and the path under which an open call will
\* be recorded is made of the names of the measured calls that were open
\* on its thread when it began, itself included.
PathIsOwnCalls ==
  \A t \in Threads :
    /\ t = NoFiber => globalEntry = MeasuredNames(stack[t])
    /\ t # NoFiber =>
         /\ fiber[t].profilerEntry = MeasuredNames(stack[t])
         /\ fiber[t].timers =
              LET ms == MeasuredFrames(stack[t])
              IN  [i \in 1..Len(ms) |-> ms[i].timer.uid]
    /\ \A i \in 1..Len(stack[t]) :
         stack[t][i].kind = "measured" =>
           stack[t][i].timerCurrentEntry = MeasuredNames(SubSeq(stack[t], 1, i))

\* The entry of a call of thread T1 (either of its steps) or its exit
\* leaves the path and the timers of every other thread as they were, and
\* touches the global path only when T1 is no fiber.
IsolationStep ==
  (/\ last'.op \in {"call", "named", "run", "exit"}
   /\ calls' = calls + 1 \/ stack' # stack) =>
    /\ \A t2 \in Fibers \ {last'.t} : fiber'[t2] = fiber[t2]
    /\ last'.t # NoFiber => globalEntry' = globalEntry

\* C15 (per-thread isolation): under any interleaving a wrapped call of a
\* thread pushes to and pops from that thread's path and timers only, and
\* the path recorded for a call is made of names of calls open on the same
\* thread when it began; the global path serves the calls outside fibers.
PerThreadIsolation == []PathIsOwnCalls /\ [][IsolationStep]_vars

\* C15 witness: a call of fiber 2 named "other a" began and completed
\* while fiber 1 had a call "a" open; its time is recorded under its own
\* name alone and fiber 1's path is still its own.
PerThreadIsolationWitness ==
  /\ running /\ incs = 0
  /\ last.op = "exit" /\ last.t = 2 /\ last.measured
  /\ stack[2] = << >> /\ fiber[2].profilerEntry = << >>
  /\ Len(stack[1]) = 1 /\ stack[1][1].kind = "measured"
  /\ fiber[1].profilerEntry = <<"a">>
  /\ Keys(bucketTimes) = <<<<"other a">>>>

\* The grand total a printed report ends with ("Measured CPU"), in tenths.
MeasuredCPU == Last(ReportedLines)[3]

\* C16 (leaf times are non-overlapping): in a session fed by wrapped calls
\* only, whatever the interleaving of its threads, the grand total of the
\* leaf view is at most the CPU time that has passed on the clock, which
\* bounds the time between the session's start and its report.
LeafTimesDisjoint ==
  (Reported /\ incs = 0) => MeasuredCPU <= toFixed1(MsPerSec * clock)

\* The time the table holds for a bucket name, summed over all its paths.
NameTotal(name) ==
  LET ps == SelectSeq(bucketTimes, LAMBDA kv : entryName(kv[1]) = name)
  IN  SumSeq([i \in 1..Len(ps) |-> ps[i][2]])

\* C17 (threshold filter): in a printed report every line of the
\* hierarchical view and every bucket line of the leaf view carries a time
\* at or above the filter; a recorded bucket name whose times sum to less
\* than the filter has no line in either view; and the grand total is the
\* sum of the bucket lines the leaf view printed.
ThresholdFilter ==
  Reported =>
    /\ \A l \in HierarchyLines : l[3] >= toFixed1(filter)
    /\ \A i \in 1..Len(NameLines) : NameLines[i][3] >= toFixed1(filter)
    /\ \A i \in 1..Len(bucketTimes) :
         LET name == entryName(bucketTimes[i][1])
         IN  NameTotal(name) < filter =>
               /\ \A l \in HierarchyLines : l[2] # name
               /\ \A k \in 1..Len(NameLines) : NameLines[k][2] # name
    /\ MeasuredCPU =
         SumSeq([i \in 1..Len(NameLines) |-> NameLines[i][3]])

\* C18 (no orphaned or mismatched timer): the process never exits on a
\* timer error; the Timer of every open measured call is running, no two
\* open calls hold the same Timer, and on a fiber the timer on top of the
\* fiber's timer stack is the one its innermost open measured call pushed,
\* so that the pop at its exit finds that very timer.
NoTimerMismatch ==
  /\ ~exited
  /\ \A t \in Threads :
       LET ms == MeasuredFrames(stack[t])
       IN  /\ \A i \in 1..Len(ms) : ms[i].timer.running
           /\ \A u \in Threads, i \in 1..Len(ms) :
                \A j \in 1..Len(MeasuredFrames(stack[u])) :
                  ms[i].timer.uid = MeasuredFrames(stack[u])[j].timer.uid
                    => (u = t /\ i = j)
           /\ (t # NoFiber /\ ms # << >>) =>
                /\ fiber[t].timers # << >>
                /\ Last(fiber[t].timers) = Last(ms).timer.uid
           /\ (t # NoFiber /\ ms = << >>) => fiber[t].timers = << >>

\* C18 witness: a measured call of fiber 1 has just thrown and popped its
\* own timer while fiber 2 holds a newer timer for a call still open.
NoTimerMismatchWitness ==
  /\ ~exited
  /\ last.op = "exit" /\ last.res = "throw" /\ last.measured /\ last.t = 1
  /\ Len(last.added) = 1
  /\ fiber[1].timers = << >>
  /\ fiber[2].timers = <<2>>
  /\ MeasuredFrames(stack[2]) # << >>

\* The injected "other" values of the last report are all non-negative.
OthersNonNegative ==
  \A i \in 1..Len(bucketTimes) :
    LET P == bucketTimes[i][1]
    IN  hasChildren(Keys(bucketTimes), P) =>
          entryTime(bucketTimesAndOther, Append(P, OtherName(P))) >= 0

\* Some thread has a measured call open.
MeasuredCallOpen == \E t \in Threads : MeasuredFrames(stack[t]) # << >>

\* C19 (implicit): in a program that feeds the table by wrapped calls
\* only, every "other" value injected by a report is non-negative, under
\* any interleaving of the threads.  Stated for the reports taken while no
\* measured call is open; the claim covers reports taken inside an open
\* call as well, which find the call's children in the table and not yet
\* the call.
OtherNonNegativeAtRest ==
  (Reported /\ incs = 0 /\ ~MeasuredCallOpen) => OthersNonNegative

\* The parents among the recorded paths, in the order of the table.
RecordedParents ==
  SelectSeq(Keys(bucketTimes), LAMBDA e : hasChildren(Keys(bucketTimes), e))

\* After setupReport the entry list is the recorded paths followed by one
\* "other" path for every recorded parent, and the render table has a
\* value for exactly the listed paths.
OneOtherPerParent ==
  last.op = "setupReport" =>
    /\ entries =
         Keys(bucketTimes)
           \o [i \in 1..Len(RecordedParents) |->
                 Append(RecordedParents[i], OtherName(RecordedParents[i]))]
    /\ {bucketTimesAndOther[i][1] : i \in 1..Len(bucketTimesAndOther)}
         = {entries[i] : i \in 1..Len(entries)}

\* A run of setupReport that follows another one on the same table leaves
\* the entry list and the render table as the first run built them.
SetupAgainStep ==
  (last.op = "setupReport" /\ last'.op = "setupReport") =>
    (entries' = entries /\ bucketTimesAndOther' = bucketTimesAndOther)

\* C20 (tree reconstruction is idempotent on a snapshot): setupReport run
\* again on the same table yields the entry list and the render table of
\* the first run, with one injected "other" entry per parent path.
SetupIdempotent == []OneOtherPerParent /\ [][SetupAgainStep]_vars

\* C20 witness: setupReport has run twice on a table with two parents,
\* and the entry list holds the recorded paths and two "other" paths.
SetupIdempotentWitness ==
  /\ last.op = "setupReport" /\ last.runs = 2
  /\ Len(RecordedParents) = 2
  /\ Len(entries) = Len(bucketTimes) + 2
  /\ Has(bucketTimesAndOther, <<"a", "other a">>)
  /\ Has(bucketTimesAndOther, <<"other a", "other other a">>)

==========================================================================
